---- MODULE Spec2Model ----
(***************************************************************************)
(* Model of helm-chartsnap: the command's run function (enumeration of the *)
(* values files, one errgroup task per values file, update-mode removal    *)
(* of the snapshot file, the snapshot step and the overall verdict) and    *)
(* of pkg/unstructured's UnknownError.                                     *)
(*                                                                         *)
(* A values file is a number: 0 is the empty values file "", 1..MaxFiles   *)
(* are the named files.  A text (the rendered and normalised output, or    *)
(* the content of a snapshot file) is an element of Texts: the program     *)
(* only ever compares two texts for equality, so two distinct texts stand  *)
(* for all of them.  "absent" is a location without a snapshot file,       *)
(* "failed" a render in which helm template failed.                        *)
(***************************************************************************)
EXTENDS Integers, Sequences, FiniteSets, TLC

MaxFiles == 2
MaxLen == 3

VARIABLES
    pc,          \* position of the process: "idle", "run", "loop", "done", "crashed"
    o,           \* the option struct: UpdateSnapshot, ValuesFile
    stat,        \* what os.Stat and os.ReadDir returned for o.ValuesFile in this run
    listing,     \* what os.ReadDir found in the values directory of this run
    values,      \* the package variable values: the enumerated values files
    next,        \* index of the next element the spawning loop handles
    tasks,       \* one record per element of values: the task started for it
    ctxDone,     \* whether the errgroup's shared context is cancelled
    egErr,       \* the first error a task returned to the errgroup
    result,      \* what run returned
    passBanner,  \* whether the PASS banner was printed
    store,       \* the snapshot files: location -> text, or Absent
    prev,        \* per location: the text the update-mode run just before this normal run stored
    upc,         \* UnknownError: the operations applied so far
    raw,         \* the fragment handed to NewUnknownError
    e,           \* the *UnknownError
    warning,     \* the result of e.Error()
    object,      \* the Object map of e.Unstructured()
    rule,        \* a snapshot config rule met by the Object map
    masked       \* the Object map after the rule was applied

runVars == <<pc, o, stat, listing, values, next, tasks, ctxDone, egErr, result,
             passBanner, store, prev>>
unknownVars == <<upc, raw, e, warning, object, rule, masked>>
vars == <<pc, o, stat, listing, values, next, tasks, ctxDone, egErr, result,
          passBanner, store, prev, upc, raw, e, warning, object, rule, masked>>

Files == 1..MaxFiles
Locations == 0..MaxFiles
Texts == {"a", "b"}
Absent == "absent"
RenderFailed == "failed"

NilError == [msg |-> "nil", cause |-> "nil"]
NoListing == [n \in Files |-> "absent"]
NoRule == [apiVersion |-> <<>>, kind |-> "", name |-> "", jsonPaths |-> {}]
NoStat == [kind |-> "none", file |-> 0, readDir |-> "none"]
NoTask == [pc |-> "none", ht |-> -1, pre |-> Absent, removed |-> "no", removedFile |-> -1,
           snapValues |-> -1, rendered |-> RenderFailed,
           ioFail |-> FALSE, err |-> NilError, banner |-> <<>>,
           snap |-> [matched |-> FALSE, failureMessage |-> <<>>, err |-> "none", written |-> Absent]]

(***************************************************************************)
(* charts.SnapshotFile: the snapshot location of a chart and values file.  *)
(* Deterministic, one location per values file, the empty values file      *)
(* having a location of its own.                                           *)
(***************************************************************************)
SnapshotFile(valuesFile) == valuesFile

(***************************************************************************)
(* The directory branch of run: the regular files whose name ends in       *)
(* .yaml, in the order os.ReadDir lists them (sorted by name).             *)
(***************************************************************************)
\* A directory branch that does not skip sub-directories.
ReadValuesDirNoDirCheck(files) ==
    SelectSeq([n \in Files |-> n], LAMBDA n : files[n] \in {"yamlFile", "yamlDir"})

\* A directory branch that appends the same path for every .yaml file.
ReadValuesDirSamePath(files) ==
    LET vs == SelectSeq([n \in Files |-> n], LAMBDA n : files[n] = "yamlFile")
    IN  [i \in 1..Len(vs) |-> vs[1]]

\* A directory branch that does not look at the suffix of the name.
ReadValuesDirAnySuffix(files) ==
    SelectSeq([n \in Files |-> n], LAMBDA n : files[n] \in {"yamlFile", "otherFile"})

ReadValuesDir(files) ==
    SelectSeq([n \in Files |-> n], LAMBDA n : files[n] = "yamlFile")

(***************************************************************************)
(* charts.Snap(ctx, ht).  It is called with the context and the helm       *)
(* options only: the update flag is not among its arguments, so it does    *)
(* the same in update mode and in normal mode.  It renders the chart       *)
(* (abandoned when ctx is cancelled), normalises the output and looks for  *)
(* the snapshot file: when there is none it writes the fresh text as the   *)
(* new snapshot and reports a match (which is what update mode, removing   *)
(* the file first, relies on); otherwise it compares the two texts byte    *)
(* for byte and reports the diff on a mismatch.                            *)
(*   canceled  the render was stopped by ctx                               *)
(*   rendered  the normalised text of the render, or RenderFailed          *)
(*   stored    the snapshot at the location, or Absent                     *)
(* written is the text it writes to the location, Absent when it writes    *)
(* nothing.                                                                *)
(*   ioFail    reading or writing the snapshot file fails                  *)
(***************************************************************************)
Snap(canceled, rendered, stored, ioFail) ==
    IF canceled
    THEN [matched |-> FALSE, failureMessage |-> <<>>, err |-> "context canceled", written |-> Absent]
    ELSE IF rendered = RenderFailed
    THEN [matched |-> FALSE, failureMessage |-> <<>>, err |-> "helm template failed", written |-> Absent]
    ELSE IF ioFail
    THEN [matched |-> FALSE, failureMessage |-> <<>>, err |-> "snapshot file i/o", written |-> Absent]
    ELSE IF stored = Absent
    THEN [matched |-> TRUE, failureMessage |-> <<>>, err |-> "nil", written |-> rendered]
    ELSE IF stored = rendered
    THEN [matched |-> TRUE, failureMessage |-> <<>>, err |-> "nil", written |-> Absent]
    ELSE [matched |-> FALSE, failureMessage |-> <<stored, rendered>>, err |-> "nil", written |-> Absent]

(***************************************************************************)
(* The task's guard of the removal: only in update mode.                   *)
(***************************************************************************)
\* A task that never removes the snapshot file, and one that always does.
ShouldRemoveNever(opt) == FALSE

ShouldRemoveAlways(opt) == TRUE

ShouldRemove(opt) == opt.UpdateSnapshot

(***************************************************************************)
(* os.Remove on a location: what it can return, and which of its errors    *)
(* the task treats as a failure (any but "does not exist").                *)
(***************************************************************************)
RemoveOutcomes(stored) ==
    IF stored = Absent THEN {"notexist", "ioerror"} ELSE {"nil", "ioerror"}

\* A task that takes every removal error for a failure.
RemoveFailsAny(rmErr) == rmErr # "nil"

RemoveFails(rmErr) == rmErr # "nil" /\ rmErr # "notexist"

(***************************************************************************)
(* What the task makes of Snap's return values: its terminal state, the    *)
(* error it returns to the errgroup and the FAIL banner it prints.         *)
(***************************************************************************)
\* A task that looks at matched before it looks at err.
RunOutcomeMatchedFirst(r) ==
    IF ~r.matched
    THEN [pc |-> "failed",
          err |-> [msg |-> "not match snapshot", cause |-> "nil"],
          banner |-> <<"FAIL">> \o r.failureMessage]
    ELSE IF r.err # "nil"
    THEN [pc |-> "failed",
          err |-> [msg |-> "failed to get snapshot", cause |-> r.err],
          banner |-> <<"FAIL", r.err>>]
    ELSE [pc |-> "passed", err |-> NilError, banner |-> <<>>]

\* A task that takes matched for the failure.
RunOutcomeInverted(r) ==
    IF r.err # "nil"
    THEN [pc |-> "failed",
          err |-> [msg |-> "failed to get snapshot", cause |-> r.err],
          banner |-> <<"FAIL", r.err>>]
    ELSE IF r.matched
    THEN [pc |-> "failed",
          err |-> [msg |-> "not match snapshot", cause |-> "nil"],
          banner |-> <<"FAIL">> \o r.failureMessage]
    ELSE [pc |-> "passed", err |-> NilError, banner |-> <<>>]

RunOutcome(r) ==
    IF r.err # "nil"
    THEN [pc |-> "failed",
          err |-> [msg |-> "failed to get snapshot", cause |-> r.err],
          banner |-> <<"FAIL", r.err>>]
    ELSE IF ~r.matched
    THEN [pc |-> "failed",
          err |-> [msg |-> "not match snapshot", cause |-> "nil"],
          banner |-> <<"FAIL">> \o r.failureMessage]
    ELSE [pc |-> "passed", err |-> NilError, banner |-> <<>>]

(***************************************************************************)
(* errgroup: the first error a task returns is kept and cancels ctx.       *)
(***************************************************************************)
\* A group that keeps the error of the task that returned last.
FirstErrorOverwritten(kept, err) == err

FirstError(kept, err) == IF kept = NilError THEN err ELSE kept

\* A group whose context is cancelled as soon as any task returns.
CancelOnAnyReturn(done, err) == TRUE

\* A group without a derived context: no error cancels it.
CancelOnNever(done, err) == done

CancelOn(done, err) == done \/ err # NilError

(***************************************************************************)
(* The end of run: eg.Wait's error is returned, else PASS is printed.      *)
(***************************************************************************)
WaitOutcome(err) ==
    IF err # NilError THEN [result |-> err, passBanner |-> FALSE]
    ELSE [result |-> NilError, passBanner |-> TRUE]

(***************************************************************************)
(* The state machine of section 4.7, read off a task's position.           *)
(***************************************************************************)
State(t) ==
    CASE t.pc = "pending" -> "Pending"
      [] t.pc \in {"spawned", "rendering"} -> "Running"
      [] t.pc = "passed" -> "Passed"
      [] t.pc = "failed" -> "Failed"
      [] OTHER -> "None"

Terminal(t) == t.pc \in {"passed", "failed"}

TaskIds == 1..Len(values)

Init ==
    /\ pc = "idle"
    /\ o = [UpdateSnapshot |-> FALSE, ValuesFile |-> ""]
    /\ stat = NoStat
    /\ listing = NoListing
    /\ values = <<>>
    /\ next = 1
    /\ tasks = <<>>
    /\ ctxDone = FALSE
    /\ egErr = NilError
    /\ result = NilError
    /\ passBanner = FALSE
    /\ store \in [Locations -> Texts \cup {Absent}]
    /\ prev = [l \in Locations |-> Absent]
    /\ upc = {}
    /\ raw = <<>>
    /\ e = [Raw |-> <<>>]
    /\ warning = <<>>
    /\ object = <<>>
    /\ rule = NoRule
    /\ masked = <<>>

(***************************************************************************)
(* Task i is the task of location l, and its render, its removal and its   *)
(* snapshot file operations all succeeded.                                 *)
(***************************************************************************)
Updated(i, l) ==
    /\ Terminal(tasks[i])
    /\ SnapshotFile(tasks[i].ht) = l
    /\ tasks[i].removed # "ioerror"
    /\ tasks[i].rendered # RenderFailed
    /\ tasks[i].snap.err \notin {"context canceled", "none"}
    /\ ~tasks[i].ioFail

(***************************************************************************)
(* main: the command is invoked with its flags (-u, -f).  A new invocation *)
(* finds the snapshot files as the previous one left them; prev notes, for *)
(* a normal run that follows an update run, what the update run rendered.  *)
(***************************************************************************)
main(u, f) ==
    /\ pc \in {"idle", "done", "crashed"}
    /\ pc' = "run"
    /\ o' = [UpdateSnapshot |-> u, ValuesFile |-> f]
    /\ prev' = [l \in Locations |->
                  IF ~u /\ pc = "done" /\ o.UpdateSnapshot /\ \E i \in TaskIds : Updated(i, l)
                  THEN tasks[CHOOSE i \in TaskIds : Updated(i, l)].rendered
                  ELSE Absent]
    /\ stat' = NoStat
    /\ listing' = NoListing
    /\ values' = <<>>
    /\ next' = 1
    /\ tasks' = <<>>
    /\ ctxDone' = FALSE
    /\ egErr' = NilError
    /\ result' = NilError
    /\ passBanner' = FALSE
    /\ UNCHANGED <<store, upc, raw, e, warning, object, rule, masked>>

(***************************************************************************)
(* run, up to the errgroup: the enumeration of the values files.           *)
(***************************************************************************)
Enumerated(vs) ==
    /\ values' = vs
    /\ tasks' = [i \in 1..Len(vs) |-> [NoTask EXCEPT !.pc = "pending"]]
    /\ pc' = "loop"
    /\ UNCHANGED <<result>>

\* A run that goes on with the empty values file when the enumeration fails.
ReturnedIgnored(err) == Enumerated(<<0>>)

Returned(err) ==
    /\ result' = [msg |-> err, cause |-> "nil"]
    /\ pc' = "done"
    /\ UNCHANGED <<values, tasks>>

Enumerate ==
    /\ pc = "run"
    /\ \/ /\ o.ValuesFile = ""
          /\ Enumerated(<<0>>)
          /\ UNCHANGED <<stat, listing>>
       \/ /\ o.ValuesFile # ""
          /\ \E kind \in {"notexist", "error", "dir", "file"} :
                \/ /\ kind = "notexist"
                   /\ stat' = [NoStat EXCEPT !.kind = kind]
                   /\ Returned("values file not found")
                   /\ UNCHANGED listing
                \/ /\ kind = "error"
                   /\ stat' = [NoStat EXCEPT !.kind = kind]
                   /\ pc' = "crashed"
                   /\ UNCHANGED <<values, tasks, result, listing>>
                \/ /\ kind = "dir"
                   /\ \/ /\ stat' = [NoStat EXCEPT !.kind = kind, !.readDir = "error"]
                         /\ Returned("failed to read values file directory")
                         /\ UNCHANGED listing
                      \/ \E files \in [Files -> {"absent", "yamlFile", "otherFile", "yamlDir"}] :
                            /\ stat' = [NoStat EXCEPT !.kind = kind, !.readDir = "ok"]
                            /\ listing' = files
                            /\ Enumerated(ReadValuesDir(files))
                \/ /\ kind = "file"
                   /\ \E f \in Files :
                         /\ stat' = [NoStat EXCEPT !.kind = kind, !.file = f]
                         /\ Enumerated(<<f>>)
                   /\ UNCHANGED listing
    /\ UNCHANGED <<o, next, ctxDone, egErr, passBanner, store, prev,
                   upc, raw, e, warning, object, rule, masked>>

(***************************************************************************)
(* One iteration of the loop: ht is built for values[next] and the task is *)
(* handed to the errgroup.                                                 *)
(***************************************************************************)
\* A loop whose tasks all capture one ht variable, which every iteration
\* overwrites.
GoSharedHt(i) ==
    /\ pc = "loop"
    /\ i = next
    /\ i <= Len(values)
    /\ tasks' = [j \in DOMAIN tasks |->
                   IF j = i THEN [tasks[j] EXCEPT !.pc = "spawned", !.ht = values[i]]
                   ELSE IF tasks[j].pc # "pending" THEN [tasks[j] EXCEPT !.ht = values[i]]
                   ELSE tasks[j]]
    /\ next' = next + 1
    /\ UNCHANGED <<pc, o, stat, listing, values, ctxDone, egErr, result, passBanner,
                   store, prev, upc, raw, e, warning, object, rule, masked>>

Go(i) ==
    /\ pc = "loop"
    /\ i = next
    /\ i <= Len(values)
    /\ tasks' = [tasks EXCEPT ![i] = [@ EXCEPT !.pc = "spawned", !.ht = values[i]]]
    /\ next' = next + 1
    /\ UNCHANGED <<pc, o, stat, listing, values, ctxDone, egErr, result, passBanner,
                   store, prev, upc, raw, e, warning, object, rule, masked>>

(***************************************************************************)
(* The task up to the call of Snap: in update mode the snapshot file of    *)
(* ht is removed; a removal error other than "does not exist" ends the     *)
(* task.  Then Snap starts the render.                                     *)
(***************************************************************************)
TaskBegin(i) ==
    /\ pc = "loop"
    /\ i \in TaskIds
    /\ tasks[i].pc = "spawned"
    /\ LET loc == SnapshotFile(tasks[i].ht) IN
       IF ShouldRemove(o)
       THEN \E rmErr \in RemoveOutcomes(store[loc]) :
               /\ store' = [store EXCEPT ![loc] = IF rmErr = "nil" THEN Absent ELSE @]
               /\ IF RemoveFails(rmErr)
                  THEN LET err == [msg |-> "failed to replace snapshot file", cause |-> rmErr] IN
                       /\ tasks' = [tasks EXCEPT ![i] =
                              [@ EXCEPT !.pc = "failed", !.pre = store[loc],
                                        !.removed = rmErr, !.removedFile = tasks[i].ht,
                                        !.err = err]]
                       /\ egErr' = FirstError(egErr, err)
                       /\ ctxDone' = CancelOn(ctxDone, err)
                  ELSE /\ tasks' = [tasks EXCEPT ![i] =
                              [@ EXCEPT !.pc = "rendering", !.pre = store[loc],
                                        !.removed = rmErr, !.removedFile = tasks[i].ht]]
                       /\ UNCHANGED <<egErr, ctxDone>>
       ELSE /\ tasks' = [tasks EXCEPT ![i] = [@ EXCEPT !.pc = "rendering", !.pre = store[loc]]]
            /\ UNCHANGED <<store, egErr, ctxDone>>
    /\ UNCHANGED <<pc, o, stat, listing, values, next, result, passBanner, prev,
                   upc, raw, e, warning, object, rule, masked>>

(***************************************************************************)
(* Snap returns and the task ends: Passed, or Failed with its error, which *)
(* the errgroup keeps when it is the first and which cancels ctx.          *)
(***************************************************************************)
TaskFinish(i) ==
    /\ pc = "loop"
    /\ i \in TaskIds
    /\ tasks[i].pc = "rendering"
    /\ \E rendered \in Texts \cup {RenderFailed},
          canceled \in (IF ctxDone THEN BOOLEAN ELSE {FALSE}) :
       \E ioFail \in (IF canceled \/ rendered = RenderFailed THEN {FALSE} ELSE BOOLEAN) :
          LET loc == SnapshotFile(tasks[i].ht)
              r == Snap(canceled, rendered, store[loc], ioFail)
              out == RunOutcome(r)
          IN  /\ store' = [store EXCEPT ![loc] = IF r.written # Absent THEN r.written ELSE @]
              /\ tasks' = [tasks EXCEPT ![i] =
                     [@ EXCEPT !.pc = out.pc, !.err = out.err, !.banner = out.banner,
                               !.rendered = rendered, !.ioFail = ioFail, !.snap = r,
                               !.snapValues = tasks[i].ht]]
              /\ egErr' = FirstError(egErr, out.err)
              /\ ctxDone' = CancelOn(ctxDone, out.err)
    /\ UNCHANGED <<pc, o, stat, listing, values, next, result, passBanner, prev,
                   upc, raw, e, warning, object, rule, masked>>

\* A Wait that returns at the first error, without waiting for the other tasks.
WaitFirstError ==
    /\ pc = "loop"
    /\ egErr # NilError
    /\ result' = WaitOutcome(egErr).result
    /\ passBanner' = WaitOutcome(egErr).passBanner
    /\ ctxDone' = TRUE
    /\ pc' = "done"
    /\ UNCHANGED <<o, stat, listing, values, next, tasks, egErr, store, prev,
                   upc, raw, e, warning, object, rule, masked>>

(***************************************************************************)
(* eg.Wait returns once the loop has started every task and every task has *)
(* returned; it cancels ctx and run returns the first error or prints PASS.*)
(***************************************************************************)
Wait ==
    /\ pc = "loop"
    /\ next > Len(values)
    /\ \A i \in TaskIds : Terminal(tasks[i])
    /\ result' = WaitOutcome(egErr).result
    /\ passBanner' = WaitOutcome(egErr).passBanner
    /\ ctxDone' = TRUE
    /\ pc' = "done"
    /\ UNCHANGED <<o, stat, listing, values, next, tasks, egErr, store, prev,
                   upc, raw, e, warning, object, rule, masked>>

Next ==
    \/ \E u \in BOOLEAN, f \in {"", "path"} : main(u, f)
    \/ Enumerate
    \/ \E i \in Files : Go(i)
    \/ \E i \in Files : TaskBegin(i)
    \/ \E i \in Files : TaskFinish(i)
    \/ Wait

Spec == Init /\ [][Next]_vars

(***************************************************************************)
(* pkg/unstructured.  A fragment is a string, modelled as a sequence of    *)
(* characters; the alphabet has the characters of the warning's own        *)
(* separator lines, so that a fragment can look like them.                 *)
(***************************************************************************)
Chars == {"a", "-", "\n"}
Fragments == UNION {[1..n -> Chars] : n \in 0..MaxLen}

GroupVersion == [Group |-> "helm-chartsnap.jlandowner.dev", Version |-> "v1alpha1"]

\* schema.GroupVersion.String(): "group/version", the parts kept apart here.
GroupVersionString(gv) ==
    IF gv.Group = "" THEN <<gv.Version>> ELSE <<gv.Group, "/", gv.Version>>

NewUnknownError(r) == [Raw |-> r]

\* The fixed text of the warning around %s, its separator lines character by character.
WarnPrefix == <<"WARN: failed to recognize a resource in stdout/stderr of helm template command output. snapshot it as Unknown: ",
                "\n", "-", "-", "-", "\n">>
WarnSuffix == <<"\n", "-", "-", "-">>

Error(err) == WarnPrefix \o err.Raw \o WarnSuffix

\* An Unstructured that trims a trailing newline of the fragment, and one that
\* also names the resource after it.
UnstructuredTrimmed(err) ==
    [apiVersion |-> GroupVersionString(GroupVersion), kind |-> "Unknown",
     raw |-> IF Len(err.Raw) > 0 /\ err.Raw[Len(err.Raw)] = "\n"
             THEN SubSeq(err.Raw, 1, Len(err.Raw) - 1) ELSE err.Raw]

UnstructuredNamed(err) ==
    [apiVersion |-> GroupVersionString(GroupVersion), kind |-> "Unknown",
     metadata |-> [name |-> err.Raw], raw |-> err.Raw]

\* An Unstructured that carries the fragment only.
UnstructuredRawOnly(err) == [raw |-> err.Raw]

Unstructured(err) ==
    [apiVersion |-> GroupVersionString(GroupVersion), kind |-> "Unknown", raw |-> err.Raw]

InitUnknown ==
    /\ pc = "idle"
    /\ o = [UpdateSnapshot |-> FALSE, ValuesFile |-> ""]
    /\ stat = NoStat
    /\ listing = NoListing
    /\ values = <<>>
    /\ next = 1
    /\ tasks = <<>>
    /\ ctxDone = FALSE
    /\ egErr = NilError
    /\ result = NilError
    /\ passBanner = FALSE
    /\ store = [l \in Locations |-> Absent]
    /\ prev = [l \in Locations |-> Absent]
    /\ upc = {}
    /\ raw = <<>>
    /\ e = [Raw |-> <<>>]
    /\ warning = <<>>
    /\ object = <<>>
    /\ rule = NoRule
    /\ masked = <<>>

\* A fragment fails to parse: NewUnknownError(r).
New(r) ==
    /\ upc = {}
    /\ raw' = r
    /\ e' = NewUnknownError(r)
    /\ upc' = {"New"}
    /\ UNCHANGED <<warning, object, rule, masked>>
    /\ UNCHANGED runVars

\* e.Error(): the warning.
ErrorCall ==
    /\ "New" \in upc
    /\ "Error" \notin upc
    /\ warning' = Error(e)
    /\ upc' = upc \cup {"Error"}
    /\ UNCHANGED <<raw, e, object, rule, masked>>
    /\ UNCHANGED runVars

\* e.Unstructured(): the resource that goes into the snapshot.
UnstructuredCall ==
    /\ "New" \in upc
    /\ "Unstructured" \notin upc
    /\ object' = Unstructured(e)
    /\ upc' = upc \cup {"Unstructured"}
    /\ UNCHANGED <<raw, e, warning, rule, masked>>
    /\ UNCHANGED runVars

(***************************************************************************)
(* The dynamic field masker meets the Object map.  A rule names an         *)
(* apiVersion and kind, optionally a name, and the paths to mask; a        *)
(* resource matches when its apiVersion and kind equal the rule's and, if  *)
(* the rule names one, its name equals the rule's.  Every path of a        *)
(* matching rule that resolves in the resource gets the fixed placeholder. *)
(***************************************************************************)
MaskPlaceholder == <<"###DYNAMIC_FIELD###">>
Rules ==
    [apiVersion : {GroupVersionString(GroupVersion), <<"v1">>},
     kind : {"Unknown", "Secret"},
     name : {<<>>, <<"a">>},
     jsonPaths : SUBSET {"/raw", "/data/token"}]

GetAPIVersion(obj) == IF "apiVersion" \in DOMAIN obj THEN obj.apiVersion ELSE <<>>
GetKind(obj) == IF "kind" \in DOMAIN obj THEN obj.kind ELSE ""
GetName(obj) == IF "metadata" \in DOMAIN obj THEN obj.metadata.name ELSE <<>>

Matches(r, obj) ==
    /\ r.apiVersion = GetAPIVersion(obj)
    /\ r.kind = GetKind(obj)
    /\ r.name = <<>> \/ r.name = GetName(obj)

\* The top-level field a path addresses; a path into a map the resource
\* does not have resolves to nothing.
Resolves(path, key) == path = "/raw" /\ key = "raw"

ApplyMask(r, obj) ==
    IF Matches(r, obj)
    THEN [k \in DOMAIN obj |->
            IF \E path \in r.jsonPaths : Resolves(path, k) THEN MaskPlaceholder ELSE obj[k]]
    ELSE obj

Mask(r) ==
    /\ "Unstructured" \in upc
    /\ "Mask" \notin upc
    /\ rule' = r
    /\ masked' = ApplyMask(r, object)
    /\ upc' = upc \cup {"Mask"}
    /\ UNCHANGED <<raw, e, warning, object>>
    /\ UNCHANGED runVars

NextUnknown ==
    \/ \E r \in Fragments : New(r)
    \/ ErrorCall
    \/ UnstructuredCall
    \/ \E r \in Rules : Mask(r)

SpecUnknown == InitUnknown /\ [][NextUnknown]_vars

(***************************************************************************)
(* Fairness: the Go scheduler keeps running the loop and the started       *)
(* goroutines, and the renderer and the file operations return: a step of  *)
(* run that can be taken is eventually taken.  FairSpec is one invocation  *)
(* of the command, from any content of the snapshot files.                 *)
(***************************************************************************)
RunStep ==
    \/ Enumerate
    \/ \E i \in Files : Go(i)
    \/ \E i \in Files : TaskBegin(i)
    \/ \E i \in Files : TaskFinish(i)
    \/ Wait

Invoke == \E u \in BOOLEAN, f \in {"", "path"} : pc = "idle" /\ main(u, f)

NextOnce == Invoke \/ RunStep

FairSpec == Init /\ [][NextOnce]_vars /\ WF_vars(RunStep)

(***************************************************************************)
(* Properties                                                              *)
(***************************************************************************)
Passed(i) == tasks[i].pc = "passed"
Failed(i) == tasks[i].pc = "failed"
Loc(i) == SnapshotFile(tasks[i].ht)

\* run returned from the enumeration, before any TestCase existed.
EnumerationFailed ==
    /\ pc = "done"
    /\ result.msg \in {"values file not found", "failed to read values file directory"}

\* The render of task i was stopped by the cancellation of ctx.
Canceled(i) == tasks[i].snap.err = "context canceled"

\* The render, the removal and the snapshot file operations of task i all succeeded.
Succeeded(i) ==
    /\ Terminal(tasks[i])
    /\ tasks[i].removed # "ioerror"
    /\ tasks[i].rendered # RenderFailed
    /\ ~Canceled(i)
    /\ ~tasks[i].ioFail

\* C1: a run over its enumerated TestCases returns no error and prints PASS
\* exactly when every TestCase ended Passed; with a Failed TestCase it returns
\* an error and PASS is never printed.
C1_VerdictIffAllPassed ==
    /\ passBanner => pc = "done" /\ result = NilError /\ \A i \in TaskIds : Passed(i)
    /\ (pc = "done" /\ ~EnumerationFailed) =>
          /\ (result = NilError) <=> (\A i \in TaskIds : Passed(i))
          /\ passBanner <=> (result = NilError)
    /\ (\E i \in TaskIds : Failed(i)) => ~passBanner /\ (pc = "done" => result # NilError)

\* A run of two TestCases has returned: the first Failed, the second Passed.
C1_Witness ==
    /\ pc = "done"
    /\ Len(values) = 2
    /\ Failed(1) /\ Passed(2)
    /\ result = tasks[1].err
    /\ ~passBanner

(***************************************************************************)
(* The terminal state task i has on its own: what its removal, its render  *)
(* and its snapshot give when no cancellation reaches it.                  *)
(***************************************************************************)
Isolated(i) ==
    IF o.UpdateSnapshot /\ tasks[i].removed = "ioerror"
    THEN [pc |-> "failed",
          err |-> [msg |-> "failed to replace snapshot file", cause |-> "ioerror"],
          banner |-> <<>>]
    ELSE RunOutcome(Snap(FALSE, tasks[i].rendered,
                         IF tasks[i].removed = "nil" THEN Absent ELSE tasks[i].pre,
                         tasks[i].ioFail))

AsIsolated(i) ==
    /\ tasks[i].pc = Isolated(i).pc
    /\ tasks[i].err = Isolated(i).err
    /\ tasks[i].banner = Isolated(i).banner

\* C2 as stated: the terminal state of every TestCase is the one its own render
\* result and its own snapshot determine, whatever its siblings did.
C2_Original ==
    \A i \in TaskIds : Terminal(tasks[i]) => AsIsolated(i)

\* C2: the terminal state of a TestCase is the one its own removal, render and
\* snapshot determine, except that a TestCase whose render is stopped by the
\* cancellation of the shared context ends Failed with the cancellation error,
\* which happens only after a sibling has Failed; a failing sibling never
\* touches the snapshot location of another TestCase.
C2_IsolatedUnlessCanceled ==
    \A i \in TaskIds :
        Terminal(tasks[i]) =>
            \/ ~Canceled(i) /\ AsIsolated(i)
            \/ /\ Canceled(i)
               /\ Failed(i)
               /\ tasks[i].err = [msg |-> "failed to get snapshot", cause |-> "context canceled"]
               /\ \E j \in TaskIds : j # i /\ Failed(j)
               /\ store[Loc(i)] = (IF tasks[i].removed = "nil" THEN Absent ELSE tasks[i].pre)

\* The first TestCase Failed; the second, whose render would have matched its
\* snapshot, was stopped by the cancellation and ended Failed.
C2_Witness ==
    /\ Len(values) = 2
    /\ Failed(1) /\ ~Canceled(1)
    /\ Failed(2) /\ Canceled(2)
    /\ Isolated(2).pc = "passed"

\* A step moves a TestCase from Pending to Running or from Running to Passed
\* or Failed, or leaves its state alone.
C3_Steps ==
    \A i \in Files :
        (i \in DOMAIN tasks /\ i \in DOMAIN tasks') =>
            \/ State(tasks'[i]) = State(tasks[i])
            \/ State(tasks[i]) = "Pending" /\ State(tasks'[i]) = "Running"
            \/ State(tasks[i]) = "Running" /\ State(tasks'[i]) \in {"Passed", "Failed"}

\* run has returned only when every TestCase is terminal.
C3_ReturnAfterAll ==
    (pc = "done" \/ pc' = "done") => \A i \in TaskIds : Terminal(tasks[i])

\* C3: each TestCase moves Pending -> Running -> Passed or Failed and stays
\* there; run has returned only when every TestCase is terminal, also when one
\* has already Failed; and under fair scheduling run eventually returns, so
\* that every enumerated TestCase eventually is terminal.
C3_StateMachine ==
    /\ [][C3_Steps /\ C3_ReturnAfterAll]_vars
    /\ (pc = "loop") ~> (pc = "done" /\ \A i \in TaskIds : Terminal(tasks[i]))

\* One TestCase has Failed, its sibling is still Running and run has not returned.
C3_Witness ==
    /\ pc = "loop"
    /\ Len(values) = 2
    /\ Failed(1)
    /\ State(tasks[2]) = "Running"

C5_UpdatePassesAndStores ==
    \A i \in TaskIds :
        (o.UpdateSnapshot /\ Succeeded(i)) =>
            /\ Passed(i)
            /\ store[Loc(i)] = tasks[i].rendered

\* An update-mode TestCase replaced a snapshot that differed from its render.
C5_Witness ==
    \E i \in TaskIds :
        /\ o.UpdateSnapshot
        /\ Succeeded(i)
        /\ tasks[i].pre \in Texts
        /\ tasks[i].pre # tasks[i].rendered
        /\ tasks[i].removed = "nil"

\* C6: in a normal-mode run that follows an update-mode run in which the
\* TestCase's removal, render and file operations succeeded, the TestCase, when
\* it renders the same text again, gets matched = true and ends Passed.
C6_UpdateThenCompare ==
    \A i \in TaskIds :
        (/\ ~o.UpdateSnapshot
         /\ Succeeded(i)
         /\ prev[Loc(i)] # Absent
         /\ tasks[i].rendered = prev[Loc(i)]) =>
            /\ tasks[i].snap.matched
            /\ tasks[i].snap.err = "nil"
            /\ Passed(i)

\* The second run of a round trip compared its render with the snapshot the
\* update run had written, while a sibling TestCase failed.
C6_Witness ==
    /\ ~o.UpdateSnapshot
    /\ Len(values) = 2
    /\ Succeeded(1)
    /\ prev[Loc(1)] = tasks[1].rendered
    /\ tasks[1].pre = tasks[1].rendered
    /\ tasks[1].snap.written = Absent
    /\ Failed(2)

Contains(s, r) ==
    \E k \in 0..(Len(s) - Len(r)) : SubSeq(s, k + 1, k + Len(r)) = r

\* C8: the UnknownError built from a fragment keeps it in Raw, the resource of
\* Unstructured() has it unchanged in its raw field, the warning of Error()
\* contains it unchanged between the separator lines, and neither call changes
\* the UnknownError.
C8_RawPreserved ==
    /\ "New" \in upc => e.Raw = raw
    /\ "Unstructured" \in upc => object.raw = raw
    /\ "Error" \in upc =>
          /\ Contains(warning, raw)
          /\ SubSeq(warning, Len(WarnPrefix) + 1, Len(WarnPrefix) + Len(raw)) = raw
          /\ Len(warning) = Len(WarnPrefix) + Len(raw) + Len(WarnSuffix)

\* Both calls were made on a fragment that ends in a newline and holds a
\* separator character.
C8_Witness ==
    /\ upc = {"New", "Error", "Unstructured"}
    /\ Len(raw) = 3
    /\ raw[3] = "\n"
    /\ raw[1] = "-"

\* C9 as stated: the unknown resource has no field other than raw.
C9_Original ==
    "Unstructured" \in upc => DOMAIN object = {"raw"}

\* C9: the unknown resource has exactly the fields apiVersion, kind and raw:
\* the fixed apiVersion helm-chartsnap.jlandowner.dev/v1alpha1 and kind Unknown
\* that mark it as unknown, and the fragment; it has no name, namespace or
\* other body field.
C9_UnknownShape ==
    "Unstructured" \in upc =>
        /\ DOMAIN object = {"apiVersion", "kind", "raw"}
        /\ object.apiVersion = <<"helm-chartsnap.jlandowner.dev", "/", "v1alpha1">>
        /\ object.kind = "Unknown"

\* The resource of a non-empty fragment has been built.
C9_Witness ==
    /\ "Unstructured" \in upc
    /\ Len(raw) > 0
    /\ object.raw = raw

\* C10: a TestCase ends Passed exactly when Snap returned no error and
\* matched = true; when Snap returns an error it ends Failed with that error
\* wrapped as its reason and shown in the FAIL banner, never as a mismatch;
\* when Snap returns matched = false without an error it ends Failed as a
\* mismatch and the FAIL banner carries the diff message.
C10_OutcomeFollowsSnap ==
    \A i \in TaskIds :
        Terminal(tasks[i]) =>
            /\ Passed(i) <=> (tasks[i].snap.err = "nil" /\ tasks[i].snap.matched)
            /\ tasks[i].snap.err \notin {"nil", "none"} =>
                  /\ Failed(i)
                  /\ tasks[i].err = [msg |-> "failed to get snapshot", cause |-> tasks[i].snap.err]
                  /\ tasks[i].banner = <<"FAIL", tasks[i].snap.err>>
            /\ (tasks[i].snap.err = "nil" /\ ~tasks[i].snap.matched) =>
                  /\ Failed(i)
                  /\ tasks[i].err = [msg |-> "not match snapshot", cause |-> "nil"]
                  /\ tasks[i].banner = <<"FAIL">> \o tasks[i].snap.failureMessage
                  /\ tasks[i].snap.failureMessage = <<tasks[i].pre, tasks[i].rendered>>
            /\ tasks[i].snap.err = "none" =>
                  Failed(i) /\ tasks[i].err.msg = "failed to replace snapshot file"

\* One TestCase ended on a render error and its sibling on a mismatch.
C10_Witness ==
    /\ Len(values) = 2
    /\ Failed(1) /\ tasks[1].snap.err = "helm template failed"
    /\ Failed(2) /\ tasks[2].snap.err = "nil" /\ ~tasks[2].snap.matched
    /\ tasks[2].banner = <<"FAIL", tasks[2].pre, tasks[2].rendered>>

\* C11: in update mode a removal that finds no snapshot file is not an error:
\* the task goes on to the render and the comparison; a removal that fails for
\* any other reason ends the task Failed with "failed to replace snapshot file"
\* before Snap is called, and the snapshot file is left as it was.
C11_RemovalErrors ==
    \A i \in TaskIds :
        /\ tasks[i].removed = "notexist" =>
              /\ o.UpdateSnapshot
              /\ tasks[i].pre = Absent
              /\ tasks[i].pc \in {"rendering", "passed", "failed"}
              /\ tasks[i].err.msg # "failed to replace snapshot file"
              /\ Terminal(tasks[i]) => tasks[i].snap.err # "none"
        /\ tasks[i].removed = "ioerror" =>
              /\ o.UpdateSnapshot
              /\ Failed(i)
              /\ tasks[i].err = [msg |-> "failed to replace snapshot file", cause |-> "ioerror"]
              /\ tasks[i].snap.err = "none"
              /\ tasks[i].snap.written = Absent
              /\ tasks[i].rendered = RenderFailed
              /\ store[Loc(i)] = tasks[i].pre

\* An update run where one removal found nothing and its task passed, and the
\* removal of the sibling failed on an existing snapshot file.
C11_Witness ==
    /\ Len(values) = 2
    /\ tasks[1].removed = "notexist" /\ Passed(1) /\ store[Loc(1)] = tasks[1].rendered
    /\ tasks[2].removed = "ioerror" /\ Failed(2) /\ tasks[2].pre \in Texts
    /\ store[Loc(2)] = tasks[2].pre

\* The enumeration of this run succeeded: the spawning loop was reached.
EnumerationDone ==
    /\ pc \in {"loop", "done"}
    /\ ~EnumerationFailed

\* C12: without a values file there is exactly one TestCase, with the empty
\* values file; a single file gives exactly one TestCase, for that file; a
\* directory gives exactly one TestCase per regular file directly in it whose
\* name ends in .yaml and none for a sub-directory or another file; the loop
\* starts one task per TestCase, each with the values file of its TestCase,
\* and no two tasks have the same values file.
C12_OneTestCasePerInput ==
    EnumerationDone =>
        /\ o.ValuesFile = "" => values = <<0>>
        /\ stat.kind = "file" => values = <<stat.file>> /\ stat.file \in Files
        /\ stat.kind = "dir" =>
              /\ \A n \in Files :
                    Cardinality({i \in TaskIds : values[i] = n}) =
                        IF listing[n] = "yamlFile" THEN 1 ELSE 0
              /\ \A i \in TaskIds : values[i] \in Files
        /\ Len(tasks) = Len(values)
        /\ \A i \in TaskIds :
              /\ (tasks[i].pc # "pending") <=> (i < next)
              /\ tasks[i].pc # "pending" => tasks[i].ht = values[i]
              /\ pc = "done" => Terminal(tasks[i])
        /\ \A i, j \in TaskIds : i # j => values[i] # values[j]

\* A directory with a .yaml file and a sub-directory named like one: one
\* TestCase, whose task ran.
C12_Witness ==
    /\ pc = "done"
    /\ stat.kind = "dir"
    /\ \E n, k \in Files : listing[n] = "yamlFile" /\ listing[k] = "yamlDir"
    /\ Len(values) = 1
    /\ Passed(1)

\* What holds once os.Stat found that the values file does not exist.
C13_NotFoundState ==
    stat.kind = "notexist" =>
        /\ pc = "done"
        /\ result = [msg |-> "values file not found", cause |-> "nil"]
        /\ values = <<>>
        /\ tasks = <<>>
        /\ next = 1
        /\ ~passBanner
        /\ ~ctxDone

\* C13: when the values file does not exist, run returns "values file not
\* found": no task is started, so Snap is never called, and no snapshot file is
\* removed, read or written, in update mode as in normal mode.
C13_NotFound ==
    /\ [] C13_NotFoundState
    /\ [][(stat.kind = "notexist" \/ stat'.kind = "notexist") =>
              /\ store' = store
              /\ tasks' = <<>>]_vars

\* An update run on a values file that does not exist, with snapshot files stored.
C13_Witness ==
    /\ stat.kind = "notexist"
    /\ o.UpdateSnapshot
    /\ pc = "done"
    /\ result.msg = "values file not found"
    /\ \A l \in Locations : store[l] \in Texts

\* The values files of distinct TestCases have distinct snapshot files, and the
\* file a task removed and the one it handed to Snap are those of its TestCase.
C14_Locations ==
    \A i \in TaskIds :
        /\ \A j \in TaskIds : i # j => SnapshotFile(values[i]) # SnapshotFile(values[j])
        /\ tasks[i].removedFile # -1 =>
              SnapshotFile(tasks[i].removedFile) = SnapshotFile(values[i])
        /\ tasks[i].snapValues # -1 =>
              SnapshotFile(tasks[i].snapValues) = SnapshotFile(values[i])
        /\ (tasks[i].removedFile # -1 /\ tasks[i].snapValues # -1) =>
              tasks[i].removedFile = tasks[i].snapValues

\* C14: no two tasks of a run ever remove, read or write the same snapshot
\* file: the snapshot files of distinct TestCases are pairwise distinct, the
\* file a task removes in update mode is the one of its own TestCase, which
\* its Snap then uses, and a step changes no snapshot file but the one of the
\* task that takes it.
C14_NoSharedLocation ==
    /\ [] C14_Locations
    /\ [][\A l \in Locations :
             store'[l] # store[l] =>
                \E i \in TaskIds :
                   /\ l = SnapshotFile(values[i])
                   /\ tasks'[i] # tasks[i]
                   /\ \A j \in TaskIds : j # i => tasks'[j] = tasks[j]]_vars

\* Two tasks of an update run are between their removal and the return of
\* Snap at the same time, each having removed the file of its own TestCase.
C14_Witness ==
    /\ o.UpdateSnapshot
    /\ Len(values) = 2
    /\ tasks[1].pc = "rendering" /\ tasks[1].removedFile = values[1]
    /\ tasks[2].pc = "rendering" /\ tasks[2].removedFile = values[2]
    /\ tasks[1].removed = "nil" /\ tasks[2].removed = "nil"
    /\ store[SnapshotFile(values[1])] = Absent /\ store[SnapshotFile(values[2])] = Absent

\* While the tasks run, ctx is cancelled exactly when a task has ended Failed;
\* before the errgroup exists it is not; a task Snap stopped on the cancelled
\* ctx is Failed, after a sibling that failed on its own.
C15_Signal ==
    /\ pc \in {"idle", "run"} => ~ctxDone
    /\ pc = "loop" => (ctxDone <=> \E i \in TaskIds : Failed(i))
    /\ (pc = "done" /\ \E i \in TaskIds : Failed(i)) => ctxDone
    /\ \A i \in TaskIds :
          Canceled(i) =>
             /\ Failed(i)
             /\ ~Passed(i)
             /\ tasks[i].err = [msg |-> "failed to get snapshot", cause |-> "context canceled"]
             /\ \E j \in TaskIds : j # i /\ Failed(j) /\ ~Canceled(j)

\* C15: as soon as a task ends Failed the shared ctx is cancelled, and it stays
\* cancelled until run returns; while the tasks run it is never cancelled
\* unless a task has failed; a task whose Snap was stopped by the cancelled
\* ctx ends Failed, never Passed, and run does not report success.
C15_Cancellation ==
    /\ [] C15_Signal
    /\ [][(ctxDone /\ pc = "loop") => ctxDone']_vars
    /\ [][\A i \in TaskIds :
             (pc = "loop" /\ tasks[i].pc # "failed" /\ tasks'[i].pc = "failed") => ctxDone']_vars
    /\ [] (pc = "done" /\ (\E i \in TaskIds : Canceled(i)) => ~passBanner /\ result # NilError)

\* The first task failed on its own and the render of its sibling was stopped
\* by the cancellation, while run is still in the errgroup.
C15_Witness ==
    /\ pc = "loop"
    /\ Len(values) = 2
    /\ Failed(1) /\ ~Canceled(1)
    /\ Failed(2) /\ Canceled(2)
    /\ ctxDone

\* The rule selects the resource of the unknown fragment.
SelectsUnknown(r) ==
    /\ r.apiVersion = GroupVersionString(GroupVersion)
    /\ r.kind = "Unknown"
    /\ r.name = <<>>

C17_Original ==
    \A i \in TaskIds :
        (o.UpdateSnapshot /\ Failed(i)) => store[Loc(i)] = tasks[i].pre

\* C17: in update mode the task removes the snapshot file before Snap is
\* called.  A TestCase that ends Failed because the removal failed leaves the
\* snapshot file as it was; one that ends Failed after the removal (the render
\* failed, ctx was cancelled, or the snapshot file could not be written) leaves
\* no snapshot file at its location, the old one being removed although no
\* replacement was written.
C17_FailedUpdateLosesSnapshot ==
    \A i \in TaskIds :
        (o.UpdateSnapshot /\ Failed(i)) =>
            /\ tasks[i].removed \in {"nil", "notexist", "ioerror"}
            /\ tasks[i].removed = "ioerror" => store[Loc(i)] = tasks[i].pre
            /\ tasks[i].removed \in {"nil", "notexist"} =>
                  /\ store[Loc(i)] = Absent
                  /\ tasks[i].snap.written = Absent
                  /\ tasks[i].snap.err \in
                        {"helm template failed", "context canceled", "snapshot file i/o"}

\* An update run found a snapshot file, removed it, and the render failed:
\* the TestCase is Failed and its location is empty.
C17_Witness ==
    \E i \in TaskIds :
        /\ o.UpdateSnapshot
        /\ Failed(i)
        /\ tasks[i].pre \in Texts
        /\ tasks[i].removed = "nil"
        /\ tasks[i].snap.err = "helm template failed"
        /\ store[Loc(i)] = Absent

\* Each started task has the ht built for its own element of values, and
\* removed and snapped with the values file of that ht.
C18_OwnHt ==
    \A i \in TaskIds :
        tasks[i].pc # "pending" =>
            /\ tasks[i].ht = values[i]
            /\ tasks[i].removedFile \in {-1, values[i]}
            /\ tasks[i].snapValues \in {-1, values[i]}
            /\ tasks[i].removed # "no" => tasks[i].removedFile = values[i]
            /\ tasks[i].snap.err # "none" => tasks[i].snapValues = values[i]

\* C18: every task works on the values file of its own TestCase, for the
\* removal in update mode and for the render and comparison, however the
\* steps of the spawning loop and of the started tasks interleave: the ht of
\* a started task is never changed by the loop or by another task.
C18_OwnValuesFile ==
    /\ [] C18_OwnHt
    /\ [][pc = "loop" =>
             \A i \in TaskIds :
                tasks[i].pc # "pending" => tasks'[i].ht = tasks[i].ht]_vars

\* The first task of an update run removed, rendered and ended before the
\* loop built the ht of the second TestCase.
C18_Witness ==
    /\ o.UpdateSnapshot
    /\ pc = "loop"
    /\ Len(values) = 2
    /\ next = 2
    /\ Passed(1)
    /\ tasks[1].removedFile = values[1] /\ tasks[1].snapValues = values[1]
    /\ tasks[2].pc = "pending"

\* C19: whatever the inspection of the values file finds (a regular file, a
\* directory, nothing, or an error of another kind), run enumerates the
\* TestCases or returns an error: it never crashes, and after a failed
\* inspection it has returned an error without starting a task.
C19_InspectionHandled ==
    /\ pc # "crashed"
    /\ (stat.kind \in {"notexist", "error"} \/ stat.readDir = "error") =>
          /\ pc = "done"
          /\ result # NilError
          /\ tasks = <<>>
    /\ stat.kind = "file" \/ (stat.kind = "dir" /\ stat.readDir = "ok") => EnumerationDone

\* The directory was read and holds no regular file whose name ends in .yaml.
NoYaml == stat.kind = "dir" /\ stat.readDir = "ok" /\ \A n \in Files : listing[n] # "yamlFile"

\* What holds of such a run: no TestCase, no task, and PASS once it returned.
C20_EmptyState ==
    NoYaml =>
        /\ pc \in {"loop", "done"}
        /\ values = <<>>
        /\ tasks = <<>>
        /\ next = 1
        /\ egErr = NilError
        /\ pc = "loop" => ~passBanner /\ ~ctxDone
        /\ pc = "done" => result = NilError /\ passBanner

\* C20: a values directory without a regular file whose name ends in .yaml
\* gives no TestCase: no task is started, Snap is never called, no snapshot
\* file is removed, read or written, and run prints PASS and returns nil.
C20_EmptyDirectoryPasses ==
    /\ [] C20_EmptyState
    /\ [][(NoYaml \/ NoYaml') => store' = store /\ tasks' = <<>>]_vars
    /\ [][(NoYaml /\ pc = "loop") => (pc' = "done" /\ passBanner' /\ result' = NilError)]_vars

\* An update run on a directory that holds a sub-directory named like a
\* values file and another file returned with PASS, the snapshot files untouched.
C20_Witness ==
    /\ NoYaml
    /\ o.UpdateSnapshot
    /\ \E n, k \in Files : listing[n] = "yamlDir" /\ listing[k] = "otherFile"
    /\ pc = "done"
    /\ passBanner
    /\ result = NilError
    /\ \A l \in Locations : store[l] \in Texts

====
